---- MODULE Spec2Model ----
(***************************************************************************)
(* Model of onlinejudge/service/hackerrank.py: the HackerRank adapter.     *)
(* Python strings are sequences of one-character strings, so that URL      *)
(* parsing, formatting and the regular expressions are computed character  *)
(* by character.  The HTTP transport is the environment: every response is *)
(* a nondeterministic choice.                                              *)
(***************************************************************************)
EXTENDS Integers, Sequences, FiniteSets, TLC

VARIABLES pc, op, self, s, parts, trace, resp, ret, csrftoken, url

vars == <<pc, op, self, s, parts, trace, resp, ret, csrftoken, url>>

----------------------------------------------------------------------------
(* Bounds of the model *)

\* longest path, in segments, of an input handed to from_url
MaxSegs == 4
\* most entries of the stdin / expected_output arrays of a poll response
MaxTests == 2
\* job ids handed out by the judge are 1..MaxId
MaxId == 2
\* the clock (milliseconds) reads 0..MaxClock
MaxClock == 1
\* most entries of the languages array of a problem's metadata
MaxLangs == 2

----------------------------------------------------------------------------
(* Python str primitives *)

Digits == <<"0","1","2","3","4","5","6","7","8","9">>
UpperCase == <<"A","B","C","D","E","F","G","H","I","J","K","L","M","N","O","P","Q","R","S","T","U","V","W","X","Y","Z">>
LowerCase == <<"a","b","c","d","e","f","g","h","i","j","k","l","m","n","o","p","q","r","s","t","u","v","w","x","y","z">>

Range(q) == {q[i] : i \in 1..Len(q)}

\* str.find(ch, start): 1-based index of the first ch at or after start, 0 if none
RECURSIVE Find(_, _, _)
Find(str, ch, start) ==
    IF start > Len(str) THEN 0
    ELSE IF str[start] = ch THEN start
    ELSE Find(str, ch, start + 1)

\* str.rfind(ch): 1-based index of the last ch, 0 if none
RECURSIVE RFind(_, _, _)
RFind(str, ch, end) ==
    IF end < 1 THEN 0
    ELSE IF str[end] = ch THEN end
    ELSE RFind(str, ch, end - 1)

StartsWith(str, prefix) ==
    /\ Len(str) >= Len(prefix)
    /\ SubSeq(str, 1, Len(prefix)) = prefix

\* sub in str
Contains(str, sub) ==
    \E i \in 1..(Len(str) - Len(sub) + 1) : SubSeq(str, i, i + Len(sub) - 1) = sub

Drop(str, n) == SubSeq(str, n + 1, Len(str))

\* str.lower() on one character
LowerChar(c) ==
    IF c \in Range(UpperCase)
    THEN LowerCase[CHOOSE i \in 1..Len(UpperCase) : UpperCase[i] = c]
    ELSE c

Lower(str) == [i \in 1..Len(str) |-> LowerChar(str[i])]

\* str.rstrip(ch)
RECURSIVE RStrip(_, _)
RStrip(str, ch) ==
    IF str # <<>> /\ str[Len(str)] = ch THEN RStrip(SubSeq(str, 1, Len(str) - 1), ch)
    ELSE str

\* '{}'.format(n) for a natural number n
RECURSIVE FormatInt(_)
FormatInt(n) ==
    IF n < 10 THEN <<Digits[n + 1]>>
    ELSE FormatInt(n \div 10) \o <<Digits[(n % 10) + 1]>>

\* str.split('/')
RECURSIVE Split(_, _)
Split(str, ch) ==
    LET i == Find(str, ch, 1)
    IN  IF i = 0 THEN <<str>>
        ELSE <<SubSeq(str, 1, i - 1)>> \o Split(Drop(str, i), ch)

\* '/'.join(comps)
RECURSIVE Join(_, _)
Join(comps, ch) ==
    IF comps = <<>> THEN <<>>
    ELSE IF Len(comps) = 1 THEN comps[1]
    ELSE comps[1] \o <<ch>> \o Join(Tail(comps), ch)

----------------------------------------------------------------------------
(* urllib.parse.urlparse, as called by from_url *)

\* the error of urlsplit: ValueError("Invalid IPv6 URL")
InvalidURL == [error |-> "ValueError"]

scheme_chars == Range(LowerCase) \cup Range(UpperCase) \cup Range(Digits) \cup {"+", "-", "."}

uses_params == {<<>>, <<"f","t","p">>, <<"h","d","l">>, <<"p","r","o","s","p","e","r","o">>, <<"h","t","t","p">>, <<"i","m","a","p">>, <<"h","t","t","p","s">>, <<"s","h","t","t","p">>,
                <<"r","t","s","p">>, <<"r","t","s","p","u">>, <<"s","i","p">>, <<"s","i","p","s">>, <<"m","m","s">>, <<"s","f","t","p">>, <<"t","e","l">>}

\* _splitnetloc(url, 2): the netloc ends at the first of '/', '?', '#'
splitnetloc(u) ==
    LET ends == {i \in 3..Len(u) : u[i] \in {"/", "?", "#"}}
        delim == IF ends = {} THEN Len(u) + 1 ELSE CHOOSE i \in ends : \A j \in ends : i <= j
    IN  [netloc |-> SubSeq(u, 3, delim - 1), rest |-> SubSeq(u, delim, Len(u))]

\* _splitparams(url): parameters of the last path segment
splitparams(u) ==
    LET i == IF Find(u, "/", 1) # 0 THEN Find(u, ";", RFind(u, "/", Len(u)))
             ELSE Find(u, ";", 1)
    IN  IF i = 0 THEN [path |-> u, params |-> <<>>]
        ELSE [path |-> SubSeq(u, 1, i - 1), params |-> Drop(u, i)]

\* the result is a record of the six components, or InvalidURL when
\* urlsplit raises "Invalid IPv6 URL"
urlparse(str) ==
    LET i == Find(str, ":", 1)
        hasScheme == /\ i > 1
                     /\ str[1] \in Range(LowerCase) \cup Range(UpperCase)
                     /\ \A j \in 1..(i - 1) : str[j] \in scheme_chars
        scheme == IF hasScheme THEN Lower(SubSeq(str, 1, i - 1)) ELSE <<>>
        u1 == IF hasScheme THEN Drop(str, i) ELSE str
        hasNetloc == StartsWith(u1, <<"/","/">>)
        netloc == IF hasNetloc THEN splitnetloc(u1).netloc ELSE <<>>
        u2 == IF hasNetloc THEN splitnetloc(u1).rest ELSE u1
        f == Find(u2, "#", 1)
        fragment == IF f = 0 THEN <<>> ELSE Drop(u2, f)
        u3 == IF f = 0 THEN u2 ELSE SubSeq(u2, 1, f - 1)
        q == Find(u3, "?", 1)
        query == IF q = 0 THEN <<>> ELSE Drop(u3, q)
        u4 == IF q = 0 THEN u3 ELSE SubSeq(u3, 1, q - 1)
        sp == IF scheme \in uses_params /\ Find(u4, ";", 1) # 0 THEN splitparams(u4)
              ELSE [path |-> u4, params |-> <<>>]
    IN  IF /\ hasNetloc
           /\ \/ "[" \in Range(netloc) /\ "]" \notin Range(netloc)
              \/ "]" \in Range(netloc) /\ "[" \notin Range(netloc)
        THEN InvalidURL
        ELSE [error |-> "", scheme |-> scheme, netloc |-> netloc, path |-> sp.path,
              params |-> sp.params, query |-> query, fragment |-> fragment]

----------------------------------------------------------------------------
(* utils.normpath: resolve '.' and '..', collapse slashes *)

RECURSIVE normcomps(_, _, _)
normcomps(comps, new_comps, initial_slashes) ==
    IF comps = <<>> THEN new_comps
    ELSE LET comp == Head(comps)
             n == Len(new_comps)
         IN  IF comp \in {<<>>, <<".">>}
             THEN normcomps(Tail(comps), new_comps, initial_slashes)
             ELSE IF \/ comp # <<".",".">>
                     \/ (~initial_slashes /\ n = 0)
                     \/ (n > 0 /\ new_comps[n] = <<".",".">>)
             THEN normcomps(Tail(comps), Append(new_comps, comp), initial_slashes)
             ELSE IF n > 0
             THEN normcomps(Tail(comps), SubSeq(new_comps, 1, n - 1), initial_slashes)
             ELSE normcomps(Tail(comps), new_comps, initial_slashes)

normpath(path) ==
    IF path = <<>> THEN <<".">>
    ELSE LET initial_slashes == path[1] = "/"
             joined == Join(normcomps(Split(path, "/"), <<>>, initial_slashes), "/")
             res == IF initial_slashes THEN <<"/">> \o joined ELSE joined
         IN  IF res = <<>> THEN <<".">> ELSE res

----------------------------------------------------------------------------
(* The regular expressions of HackerRankProblem.from_url *)

\* the character class [0-9A-Za-z-]
SlugChars == Range(Digits) \cup Range(UpperCase) \cup Range(LowerCase) \cup {"-"}

\* length of the longest prefix of str in [0-9A-Za-z-]*
RECURSIVE SlugLen(_)
SlugLen(str) ==
    IF str # <<>> /\ Head(str) \in SlugChars THEN 1 + SlugLen(Tail(str)) ELSE 0

\* '$': the end of the string, or just before a newline that ends it
AtDollar(str) == str = <<>> \/ str = <<"\n">>

\* a failed match; a successful match is the tuple of its groups
NoMatch == <<>>

\* re.match(r'^/challenges/([0-9A-Za-z-]+)$', path): the group, or NoMatch
match_challenge(path) ==
    IF ~StartsWith(path, <<"/","c","h","a","l","l","e","n","g","e","s","/">>) THEN NoMatch
    ELSE LET r1 == Drop(path, Len(<<"/","c","h","a","l","l","e","n","g","e","s","/">>))
             n1 == SlugLen(r1)
         IN  IF n1 >= 1 /\ AtDollar(Drop(r1, n1)) THEN <<SubSeq(r1, 1, n1)>>
             ELSE NoMatch

\* re.match(r'^/contests/([0-9A-Za-z-]+)/challenges/([0-9A-Za-z-]+)$', path):
\* the two groups, or NoMatch.  The class excludes '/', so the greedy match
\* of a group is the only one.
match_contest(path) ==
    IF ~StartsWith(path, <<"/","c","o","n","t","e","s","t","s","/">>) THEN NoMatch
    ELSE LET r1 == Drop(path, Len(<<"/","c","o","n","t","e","s","t","s","/">>))
             n1 == SlugLen(r1)
             r2 == Drop(r1, n1)
         IN  IF n1 = 0 \/ ~StartsWith(r2, <<"/","c","h","a","l","l","e","n","g","e","s","/">>) THEN NoMatch
             ELSE LET r3 == Drop(r2, Len(<<"/","c","h","a","l","l","e","n","g","e","s","/">>))
                      n2 == SlugLen(r3)
                  IN  IF n2 >= 1 /\ AtDollar(Drop(r3, n2))
                      THEN <<SubSeq(r1, 1, n1), SubSeq(r3, 1, n2)>>
                      ELSE NoMatch

----------------------------------------------------------------------------
(* Outcomes of a call *)

None == [type |-> "NoneType"]
Pending == [kind |-> "pending"]
Return(v) == [kind |-> "return", value |-> v]
Raise(e) == [kind |-> "raise", value |-> e]

----------------------------------------------------------------------------
(* class HackerRankProblem *)

HackerRankProblem(contest_slug, challenge_slug) ==
    [type |-> "HackerRankProblem", contest_slug |-> contest_slug, challenge_slug |-> challenge_slug]

\* always the short form: the contest slug is dropped
get_url_short(p) ==
    <<"h","t","t","p","s",":","/","/","w","w","w",".","h","a","c","k","e","r","r","a","n","k",".","c","o","m","/","c","h","a","l","l","e","n","g","e","s","/">> \o p.challenge_slug

get_url(p) ==
    IF p.contest_slug = <<"m","a","s","t","e","r">>
    THEN <<"h","t","t","p","s",":","/","/","w","w","w",".","h","a","c","k","e","r","r","a","n","k",".","c","o","m","/","c","h","a","l","l","e","n","g","e","s","/">> \o p.challenge_slug
    ELSE <<"h","t","t","p","s",":","/","/","w","w","w",".","h","a","c","k","e","r","r","a","n","k",".","c","o","m","/","c","o","n","t","e","s","t","s","/">> \o p.contest_slug
             \o <<"/","c","h","a","l","l","e","n","g","e","s","/">> \o p.challenge_slug

\* the outcome of HackerRankProblem.from_url(str)
from_url(str) ==
    LET result == urlparse(str)
    IN  IF result.error # "" THEN Raise(result.error)
        ELSE IF /\ result.scheme \in {<<>>, <<"h","t","t","p">>, <<"h","t","t","p","s">>}
                /\ result.netloc \in {<<"h","a","c","k","e","r","r","a","n","k",".","c","o","m">>, <<"w","w","w",".","h","a","c","k","e","r","r","a","n","k",".","c","o","m">>}
        THEN LET path == normpath(result.path)
                 m1 == match_contest(path)
                 m2 == match_challenge(path)
             IN  IF m1 # NoMatch THEN Return(HackerRankProblem(m1[1], m1[2]))
                 ELSE IF m2 # NoMatch THEN Return(HackerRankProblem(<<"m","a","s","t","e","r">>, m2[1]))
                 ELSE Return(None)
        ELSE Return(None)

----------------------------------------------------------------------------
(* The strings handed to from_url.  A string is assembled from a prefix    *)
(* (scheme, '//' and host), a path of at most MaxSegs segments and a tail. *)

Prefixes ==
    { [scheme |-> <<"h","t","t","p","s">>, authority |-> TRUE,  host |-> <<"w","w","w",".","h","a","c","k","e","r","r","a","n","k",".","c","o","m">>],
      [scheme |-> <<"h","t","t","p">>,  authority |-> TRUE,  host |-> <<"h","a","c","k","e","r","r","a","n","k",".","c","o","m">>],
      [scheme |-> <<>>,      authority |-> TRUE,  host |-> <<"w","w","w",".","h","a","c","k","e","r","r","a","n","k",".","c","o","m">>],
      [scheme |-> <<"H","T","T","P","S">>, authority |-> TRUE,  host |-> <<"h","a","c","k","e","r","r","a","n","k",".","c","o","m">>],
      [scheme |-> <<>>,      authority |-> FALSE, host |-> <<"w","w","w",".","h","a","c","k","e","r","r","a","n","k",".","c","o","m">>],
      [scheme |-> <<"f","t","p">>,   authority |-> TRUE,  host |-> <<"w","w","w",".","h","a","c","k","e","r","r","a","n","k",".","c","o","m">>],
      [scheme |-> <<"h","t","t","p","s">>, authority |-> TRUE,  host |-> <<"e","x","a","m","p","l","e",".","c","o","m">>],
      [scheme |-> <<"h","t","t","p","s">>, authority |-> TRUE,  host |-> <<"[">>] }

Segments == {<<"c","o","n","t","e","s","t","s">>, <<"c","h","a","l","l","e","n","g","e","s">>, <<"m","a","s","t","e","r">>, <<"a","-","1">>, <<"a","_","b">>, <<".",".">>, <<>>}

Tails == {<<>>, <<"?","q","=","1","#","f">>}

RECURSIVE SeqsUpTo(_, _)
SeqsUpTo(S, n) ==
    IF n = 0 THEN {<<>>}
    ELSE LET shorter == SeqsUpTo(S, n - 1)
         IN  shorter \cup {Append(q, x) : q \in {r \in shorter : Len(r) = n - 1}, x \in S}

Inputs == [prefix : Prefixes, segs : SeqsUpTo(Segments, MaxSegs), tail : Tails]

RECURSIVE PathString(_)
PathString(segs) ==
    IF segs = <<>> THEN <<>> ELSE <<"/">> \o Head(segs) \o PathString(Tail(segs))

InputString(i) ==
    (IF i.prefix.scheme = <<>> THEN <<>> ELSE i.prefix.scheme \o <<":">>)
        \o (IF i.prefix.authority THEN <<"/","/">> ELSE <<>>)
        \o i.prefix.host \o PathString(i.segs) \o i.tail

NoParts == [prefix |-> <<>>]

----------------------------------------------------------------------------
(* The transport: requests as they are issued, responses as they may come  *)

NoJson == [type |-> "NoneType"]

Request(method, u, json, token) ==
    [kind |-> method, url |-> u, json |-> json, csrf |-> token]

SleepEvent(seconds) ==
    [kind |-> "sleep", url |-> FormatInt(seconds), json |-> NoJson, csrf |-> <<>>]

CredentialsEvent ==
    [kind |-> "get_credentials", url |-> <<>>, json |-> NoJson, csrf |-> <<>>]

NoResp == [type |-> "NoneType"]

\* a page with or without the <meta name="csrf-token"> tag
ProblemPages == [has_csrf : BOOLEAN]

Token == <<"t","o","k">>

\* the answers of the REST endpoints that create a job: {status, model: {id}}
JobResponses ==
    {[status |-> FALSE]} \cup [status : {TRUE}, id : 1..MaxId]

Stdin == {"in-a", "in-b"}
ExpectedOutput == {"out-a", "out-b"}

\* the answers of the poll endpoint: {status, model: {stdin, expected_output}}
PollResponses ==
    {[status |-> FALSE]}
        \cup [status : {TRUE}, stdin : SeqsUpTo(Stdin, MaxTests),
              expected_output : SeqsUpTo(ExpectedOutput, MaxTests)]

Languages == {"cpp", "bash", "zzz"}

\* the answers of the metadata endpoint: {status, model: {languages}}
ModelResponses ==
    {[status |-> FALSE]}
        \cup [status : {TRUE}, model : [languages : SeqsUpTo(Languages, MaxLangs)]]

login_url == <<"h","t","t","p","s",":","/","/","w","w","w",".","h","a","c","k","e","r","r","a","n","k",".","c","o","m","/","a","u","t","h","/","l","o","g","i","n">>

\* where the GET of the login page may end after redirects
LoginFinalUrls ==
    { login_url,
      <<"h","t","t","p","s",":","/","/","w","w","w",".","h","a","c","k","e","r","r","a","n","k",".","c","o","m","/","d","a","s","h","b","o","a","r","d">>,
      <<"h","t","t","p","s",":","/","/","w","w","w",".","h","a","c","k","e","r","r","a","n","k",".","c","o","m","/","a","u","t","h","/","l","o","g","i","n","?","h","_","r","=","l","o","g","i","n">>,
      <<"h","t","t","p","s",":","/","/","w","w","w",".","h","a","c","k","e","r","r","a","n","k",".","c","o","m","/">> }

LoginPages == [url : LoginFinalUrls, has_csrf : BOOLEAN, has_form : BOOLEAN]

\* where the POST of the login form may end, with or without an error status
LoginPostResponses ==
    [url : { <<"h","t","t","p","s",":","/","/","w","w","w",".","h","a","c","k","e","r","r","a","n","k",".","c","o","m","/","r","e","s","t","/","a","u","t","h","/","l","o","g","i","n">>,
             <<"h","t","t","p","s",":","/","/","w","w","w",".","h","a","c","k","e","r","r","a","n","k",".","c","o","m","/","d","a","s","h","b","o","a","r","d">>,
             <<"h","t","t","p","s",":","/","/","w","w","w",".","h","a","c","k","e","r","r","a","n","k",".","c","o","m","/","a","u","t","h","/","l","o","g","i","n">> },
     ok : BOOLEAN]

Credentials == {[username |-> "user", password |-> "pass"]}

----------------------------------------------------------------------------
(* Initial state: no call is in progress and nothing has been requested *)

Init ==
    /\ pc = "idle"
    /\ op = "none"
    /\ self = None
    /\ s = <<>>
    /\ parts = NoParts
    /\ trace = <<>>
    /\ resp = NoResp
    /\ ret = Pending
    /\ csrftoken = <<>>
    /\ url = <<>>

\* the driver is done with a call and starts over
Finish ==
    /\ pc = "done"
    /\ pc' = "idle"
    /\ op' = "none"
    /\ self' = None
    /\ s' = <<>>
    /\ parts' = NoParts
    /\ trace' = <<>>
    /\ resp' = NoResp
    /\ ret' = Pending
    /\ csrftoken' = <<>>
    /\ url' = <<>>

----------------------------------------------------------------------------
(* HackerRankProblem.from_url *)

FromUrl ==
    /\ pc = "idle"
    /\ \E i \in Inputs :
        /\ parts' = i
        /\ s' = InputString(i)
    /\ op' = "from_url"
    /\ ret' = from_url(s')
    /\ self' = IF ret'.kind = "return" THEN ret'.value ELSE None
    /\ pc' = IF self' # None THEN "problem" ELSE "done"
    /\ UNCHANGED <<trace, resp, csrftoken, url>>

\* from_url applied to the canonical URL of the problem at hand
FromCanonicalUrl ==
    /\ pc = "problem"
    /\ op = "from_url"
    /\ s' = get_url(self)
    /\ op' = "from_canonical_url"
    /\ ret' = from_url(s')
    /\ pc' = "done"
    /\ UNCHANGED <<self, parts, trace, resp, csrftoken, url>>

----------------------------------------------------------------------------
(* HackerRankService.login and is_logged_in *)

\* the test of is_logged_in used for the initial GET of login
already_signed_in_by_auth(final_url) == ~Contains(final_url, <<"/","a","u","t","h">>)

\* login's test of the initial GET: redirected means already signed in
already_signed_in(final_url) == final_url # login_url

\* the test of login's initial GET used for every URL
not_in_auth_by_inequality(u) == u # <<"h","t","t","p","s",":","/","/","w","w","w",".","h","a","c","k","e","r","r","a","n","k",".","c","o","m","/","a","u","t","h","/","l","o","g","i","n">>

\* the test of a URL for a signed-in session: '/auth' not in resp.url
not_in_auth(u) == ~Contains(u, <<"/","a","u","t","h">>)

login_post_url == <<"h","t","t","p","s",":","/","/","w","w","w",".","h","a","c","k","e","r","r","a","n","k",".","c","o","m","/","r","e","s","t","/","a","u","t","h","/","l","o","g","i","n">>

LoginGet ==
    /\ pc = "idle"
    /\ op' = "login"
    /\ \E page \in LoginPages :
        /\ resp' = page
        /\ trace' = <<Request("GET", login_url, NoJson, <<>>)>>
        /\ IF already_signed_in(page.url)
           THEN /\ ret' = Return(TRUE)
                /\ pc' = "done"
                /\ csrftoken' = <<>>
           ELSE IF ~page.has_csrf \/ ~page.has_form
           THEN /\ ret' = Raise("AttributeError")
                /\ pc' = "done"
                /\ csrftoken' = <<>>
           ELSE /\ ret' = Pending
                /\ pc' = "login_post"
                /\ csrftoken' = Token
    /\ UNCHANGED <<self, s, parts, url>>

LoginPost ==
    /\ pc = "login_post"
    /\ \E cred \in Credentials, r \in LoginPostResponses :
        /\ resp' = r
        /\ trace' = trace \o
              <<CredentialsEvent,
                Request("POST", login_post_url,
                        [login |-> cred.username, password |-> cred.password,
                         remember_me |-> "true", fallback |-> "true"],
                        csrftoken)>>
        /\ ret' = IF ~r.ok THEN Raise("HTTPError")
                  ELSE Return(not_in_auth(r.url))
    /\ pc' = "done"
    /\ UNCHANGED <<op, self, s, parts, csrftoken, url>>

IsLoggedIn ==
    /\ pc = "idle"
    /\ op' = "is_logged_in"
    /\ \E page \in LoginPages :
        /\ resp' = page
        /\ trace' = <<Request("GET", login_url, NoJson, <<>>)>>
        /\ ret' = Return(not_in_auth(page.url))
    /\ pc' = "done"
    /\ UNCHANGED <<self, s, parts, csrftoken, url>>

----------------------------------------------------------------------------
(* HackerRankProblem.download *)

rest_url(p) ==
    <<"h","t","t","p","s",":","/","/","w","w","w",".","h","a","c","k","e","r","r","a","n","k",".","c","o","m","/","r","e","s","t","/","c","o","n","t","e","s","t","s","/">> \o p.contest_slug
        \o <<"/","c","h","a","l","l","e","n","g","e","s","/">> \o p.challenge_slug

compile_tests_url(p) == rest_url(p) \o <<"/","c","o","m","p","i","l","e","_","t","e","s","t","s">>

poll_url(p, id, unixtime) ==
    compile_tests_url(p) \o <<"/">> \o FormatInt(id) \o <<"?","_","=">> \o FormatInt(unixtime)

compile_payload == [code |-> ":", language |-> "bash", customtestcase |-> FALSE]

\* utils.textfile: the text as the content of a text file
textfile(text) == [textfile |-> text]

LabeledString(name, data) == [name |-> name, data |-> data]

TestCase(input, output) == [input |-> input, output |-> output]

Min(a, b) == IF a < b THEN a ELSE b

\* the samples numbered from 1
samples_of_from_one(stdin, expected_output) ==
    [k \in 1..Min(Len(stdin), Len(expected_output)) |->
        TestCase(
            LabeledString(<<"T","e","s","t","c","a","s","e"," ">> \o FormatInt(k) \o <<" ","I","n","p","u","t">>,
                          textfile(stdin[k])),
            LabeledString(<<"T","e","s","t","c","a","s","e"," ">> \o FormatInt(k) \o <<" ","E","x","p","e","c","t","e","d"," ","O","u","t","p","u","t">>,
                          textfile(expected_output[k])))]

\* the samples built from a poll response: zip, numbered from 0
samples_of(stdin, expected_output) ==
    [k \in 1..Min(Len(stdin), Len(expected_output)) |->
        TestCase(
            LabeledString(<<"T","e","s","t","c","a","s","e"," ">> \o FormatInt(k - 1) \o <<" ","I","n","p","u","t">>,
                          textfile(stdin[k])),
            LabeledString(<<"T","e","s","t","c","a","s","e"," ">> \o FormatInt(k - 1) \o <<" ","E","x","p","e","c","t","e","d"," ","O","u","t","p","u","t">>,
                          textfile(expected_output[k])))]

Methods == {"run_code", "parse_html", "bogus"}

Download ==
    /\ pc = "problem"
    /\ op' = "download"
    /\ s' = <<>>
    /\ parts' = NoParts
    /\ \E method \in Methods :
        IF method = "run_code"
        THEN \E page \in ProblemPages :
                /\ resp' = page
                /\ trace' = <<Request("GET", get_url(self), NoJson, <<>>)>>
                /\ IF page.has_csrf
                   THEN /\ csrftoken' = Token
                        /\ ret' = Pending
                        /\ pc' = "compile"
                   ELSE /\ csrftoken' = <<>>
                        /\ ret' = Raise("AttributeError")
                        /\ pc' = "done"
        ELSE /\ ret' = IF method = "parse_html" THEN Raise("NotImplementedError")
                       ELSE Raise("ValueError")
             /\ pc' = "done"
             /\ UNCHANGED <<trace, resp, csrftoken>>
    /\ UNCHANGED <<self, url>>

\* the compile POST without the return on a false status
CompilePostFallThrough ==
    /\ pc = "compile"
    /\ \E it \in JobResponses, unixtime \in 0..MaxClock :
        /\ resp' = it
        /\ trace' = Append(trace,
              Request("POST", compile_tests_url(self), compile_payload, csrftoken))
        /\ ret' = Pending
        /\ pc' = "sleep"
        /\ url' = poll_url(self, IF it.status THEN it.id ELSE 0, unixtime)
    /\ UNCHANGED <<op, self, s, parts, csrftoken>>

CompilePost ==
    /\ pc = "compile"
    /\ \E it \in JobResponses, unixtime \in 0..MaxClock :
        /\ resp' = it
        /\ trace' = Append(trace,
              Request("POST", compile_tests_url(self), compile_payload, csrftoken))
        /\ IF ~it.status
           THEN /\ ret' = Return(<<>>)
                /\ pc' = "done"
                /\ url' = url
           ELSE /\ ret' = Pending
                /\ pc' = "sleep"
                /\ url' = poll_url(self, it.id, unixtime)
    /\ UNCHANGED <<op, self, s, parts, csrftoken>>

Sleep ==
    /\ pc = "sleep"
    /\ trace' = Append(trace, SleepEvent(3))
    /\ pc' = "poll"
    /\ UNCHANGED <<op, self, s, parts, resp, ret, csrftoken, url>>

\* the poll GET repeated, after another delay, until the status is true
PollGetRetry ==
    /\ pc = "poll"
    /\ \E it \in PollResponses :
        /\ resp' = it
        /\ trace' = Append(trace, Request("GET", url, NoJson, csrftoken))
        /\ ret' = IF ~it.status THEN Pending
                  ELSE Return(samples_of(it.stdin, it.expected_output))
        /\ pc' = IF ~it.status THEN "sleep" ELSE "done"
    /\ UNCHANGED <<op, self, s, parts, csrftoken, url>>

PollGet ==
    /\ pc = "poll"
    /\ \E it \in PollResponses :
        /\ resp' = it
        /\ trace' = Append(trace, Request("GET", url, NoJson, csrftoken))
        /\ ret' = IF ~it.status THEN Return(<<>>)
                  ELSE Return(samples_of(it.stdin, it.expected_output))
    /\ pc' = "done"
    /\ UNCHANGED <<op, self, s, parts, csrftoken, url>>

----------------------------------------------------------------------------
(* HackerRankProblem.get_language_dict *)

lang_display_mapping ==
    (   "c" :> "C"
     @@ "cpp" :> "C++"
     @@ "java" :> "Java 7"
     @@ "csharp" :> "C#"
     @@ "haskell" :> "Haskell"
     @@ "php" :> "PHP"
     @@ "python" :> "Python 2"
     @@ "pypy" :> "Pypy 2"
     @@ "pypy3" :> "Pypy 3"
     @@ "ruby" :> "Ruby"
     @@ "perl" :> "Perl"
     @@ "bash" :> "BASH"
     @@ "oracle" :> "Oracle"
     @@ "mysql" :> "MySQL"
     @@ "sql" :> "SQL"
     @@ "clojure" :> "Clojure"
     @@ "scala" :> "Scala"
     @@ "code" :> "Generic"
     @@ "text" :> "Plain Text"
     @@ "brainfuck" :> "Brainfuck"
     @@ "javascript" :> "Javascript"
     @@ "typescript" :> "Typescript"
     @@ "lua" :> "Lua"
     @@ "sbcl" :> "Common Lisp (SBCL)"
     @@ "erlang" :> "Erlang"
     @@ "go" :> "Go"
     @@ "d" :> "D"
     @@ "ocaml" :> "OCaml"
     @@ "pascal" :> "Pascal"
     @@ "python3" :> "Python 3"
     @@ "groovy" :> "Groovy"
     @@ "objectivec" :> "Objective-C"
     @@ "text_pseudo" :> "Plain Text"
     @@ "fsharp" :> "F#"
     @@ "visualbasic" :> "VB. NET"
     @@ "cobol" :> "COBOL"
     @@ "tsql" :> "MS SQL Server"
     @@ "lolcode" :> "LOLCODE"
     @@ "smalltalk" :> "Smalltalk"
     @@ "tcl" :> "Tcl"
     @@ "whitespace" :> "Whitespace"
     @@ "css" :> "CSS"
     @@ "html" :> "HTML"
     @@ "java8" :> "Java 8"
     @@ "db2" :> "DB2"
     @@ "octave" :> "Octave"
     @@ "r" :> "R"
     @@ "xquery" :> "XQuery"
     @@ "racket" :> "Racket"
     @@ "xml" :> "XML"
     @@ "rust" :> "Rust"
     @@ "swift" :> "Swift"
     @@ "elixir" :> "Elixir"
     @@ "fortran" :> "Fortran"
     @@ "ada" :> "Ada"
     @@ "nim" :> "Nim"
     @@ "julia" :> "Julia"
     @@ "cpp14" :> "C++14"
     @@ "coffeescript" :> "Coffeescript" )

\* a failed fetch answered with an empty model
_get_model_empty(it) ==
    IF ~it.status THEN Return([languages |-> <<>>]) ELSE Return(it.model)

\* _get_model: the model of the metadata, or SubmissionError
_get_model(it) ==
    IF ~it.status THEN Raise("SubmissionError") ELSE Return(it.model)

language_dict(info) ==
    [lang \in Range(info.languages) |->
        [description |-> IF lang \in DOMAIN lang_display_mapping
                         THEN lang_display_mapping[lang] ELSE lang]]

GetLanguageDict ==
    /\ pc = "problem"
    /\ op' = "get_language_dict"
    /\ s' = <<>>
    /\ parts' = NoParts
    /\ \E it \in ModelResponses :
        /\ resp' = it
        /\ trace' = <<Request("GET", rest_url(self), NoJson, <<>>)>>
        /\ ret' = IF _get_model(it).kind = "raise" THEN _get_model(it)
                  ELSE Return(language_dict(_get_model(it).value))
    /\ pc' = "done"
    /\ UNCHANGED <<self, csrftoken, url>>

----------------------------------------------------------------------------
(* HackerRankProblem.submit *)

Codes == {"print(1)"}

submissions_url(p) == rest_url(p) \o <<"/","s","u","b","m","i","s","s","i","o","n","s">>

CompatibilitySubmission(u, problem) ==
    [type |-> "CompatibilitySubmission", url |-> u, problem |-> problem]

\* the requests of submit, with a login page fetched first
submit_requests_with_login(p, code, language, token) ==
    <<Request("GET", <<"h","t","t","p","s",":","/","/","w","w","w",".","h","a","c","k","e","r","r","a","n","k",".","c","o","m","/","a","u","t","h","/","l","o","g","i","n">>, NoJson, <<>>),
      Request("GET", get_url(p), NoJson, <<>>),
      Request("POST", submissions_url(p), [code |-> code, language |-> language], token)>>

\* the requests of submit: the page GET, then the submission POST
submit_requests(p, code, language, token) ==
    <<Request("GET", get_url(p), NoJson, <<>>),
      Request("POST", submissions_url(p), [code |-> code, language |-> language], token)>>

Submit ==
    /\ pc = "problem"
    /\ op' = "submit"
    /\ s' = <<>>
    /\ parts' = NoParts
    /\ \E code \in Codes, language \in Languages, page \in ProblemPages, it \in JobResponses :
        LET requests == submit_requests(self, code, language, Token)
        IN  IF ~page.has_csrf
            THEN /\ resp' = page
                 /\ trace' = SubSeq(requests, 1, Len(requests) - 1)
                 /\ csrftoken' = <<>>
                 /\ ret' = Raise("AttributeError")
            ELSE /\ resp' = it
                 /\ trace' = requests
                 /\ csrftoken' = Token
                 /\ ret' = IF ~it.status THEN Raise("SubmissionError")
                           ELSE Return(CompatibilitySubmission(
                                    RStrip(get_url(self), "/") \o <<"/","s","u","b","m","i","s","s","i","o","n","s","/","c","o","d","e","/">>
                                        \o FormatInt(it.id),
                                    self))
    /\ pc' = "done"
    /\ UNCHANGED <<self, url>>

----------------------------------------------------------------------------

Next ==
    \/ FromUrl
    \/ FromCanonicalUrl
    \/ LoginGet
    \/ LoginPost
    \/ IsLoggedIn
    \/ Download
    \/ CompilePost
    \/ Sleep
    \/ PollGet
    \/ GetLanguageDict
    \/ Submit
    \/ Finish

Spec == Init /\ [][Next]_vars

----------------------------------------------------------------------------
(* Vocabulary of the properties *)

\* the requests and callbacks that authenticate
IsAuthStep(e) ==
    \/ e.kind = "get_credentials"
    \/ e.kind \in {"GET", "POST"} /\ Contains(e.url, <<"/","a","u","t","h","/","l","o","g","i","n">>)

\* the positions of the poll requests in a trace of download
PollRequests(tr) ==
    {k \in DOMAIN tr : /\ tr[k].kind = "GET"
                       /\ StartsWith(tr[k].url, compile_tests_url(self) \o <<"/">>)}

\* a slug as section 4.1 restricts it
IsSlug(seg) == seg # <<>> /\ \A k \in DOMAIN seg : seg[k] \in SlugChars

\* a path normalized segment by segment: empty segments vanish and '..'
\* removes the segment before it
RECURSIVE NormSegs(_, _)
NormSegs(segs, acc) ==
    IF segs = <<>> THEN acc
    ELSE IF Head(segs) = <<>> THEN NormSegs(Tail(segs), acc)
    ELSE IF Head(segs) = <<".",".">>
    THEN NormSegs(Tail(segs), IF acc = <<>> THEN acc ELSE SubSeq(acc, 1, Len(acc) - 1))
    ELSE NormSegs(Tail(segs), Append(acc, Head(segs)))

ConformingPrefix(prefix) ==
    /\ Lower(prefix.scheme) \in {<<>>, <<"h","t","t","p">>, <<"h","t","t","p","s">>}
    /\ prefix.authority
    /\ prefix.host \in {<<"h","a","c","k","e","r","r","a","n","k",".","c","o","m">>, <<"w","w","w",".","h","a","c","k","e","r","r","a","n","k",".","c","o","m">>}

\* what section 4.1 says from_url answers for an input assembled from i
Expected(i) ==
    LET n == NormSegs(i.segs, <<>>)
    IN  IF ~ConformingPrefix(i.prefix) THEN None
        ELSE IF /\ Len(n) = 4 /\ n[1] = <<"c","o","n","t","e","s","t","s">> /\ n[3] = <<"c","h","a","l","l","e","n","g","e","s">>
                /\ IsSlug(n[2]) /\ IsSlug(n[4])
        THEN HackerRankProblem(n[2], n[4])
        ELSE IF Len(n) = 2 /\ n[1] = <<"c","h","a","l","l","e","n","g","e","s">> /\ IsSlug(n[2])
        THEN HackerRankProblem(<<"m","a","s","t","e","r">>, n[2])
        ELSE None

----------------------------------------------------------------------------
(* Properties *)

\* C1: from_url applied to the canonical URL of a problem that from_url
\* returned gives a problem with the same contest slug and challenge slug.
RoundTrip ==
    op = "from_canonical_url" =>
        /\ ret.kind = "return"
        /\ ret.value = self

\* C1 happens: an input of the long shape with the contest slug 'master'
\* has gone through get_url and from_url again.
RoundTripMasterReached ==
    /\ op = "from_canonical_url"
    /\ parts.segs = <<<<"c","o","n","t","e","s","t","s">>, <<"m","a","s","t","e","r">>, <<"c","h","a","l","l","e","n","g","e","s">>, <<"a","-","1">>>>
    /\ s = <<"h","t","t","p","s",":","/","/","w","w","w",".","h","a","c","k","e","r","r","a","n","k",".","c","o","m","/","c","h","a","l","l","e","n","g","e","s","/","a","-","1">>
    /\ ret.kind = "return"
    /\ ret.value.contest_slug = <<"m","a","s","t","e","r">>

\* C2: from_url never raises; it returns the problem with the slugs of the
\* normalized path for every conforming input, and no-match for every
\* other input.
FromUrlDecides ==
    op = "from_url" =>
        /\ ret.kind = "return"
        /\ ret.value = Expected(parts)

\* C2, what the code does do: whenever from_url returns, it returns what
\* section 4.1 says.
FromUrlDecidesWhenItReturns ==
    (op = "from_url" /\ ret.kind = "return") => ret.value = Expected(parts)

\* C3: a compile POST answered with status false ends the call with an
\* empty list, the page GET and the compile POST being its only requests.
CompileFailureStops ==
    [][(pc = "compile" /\ ~resp'.status) =>
          /\ pc' = "done"
          /\ ret' = Return(<<>>)
          /\ Len(trace') = 2
          /\ trace'[1].kind = "GET" /\ trace'[1].url = get_url(self)
          /\ trace'[2].kind = "POST" /\ trace'[2].url = compile_tests_url(self)
          /\ PollRequests(trace') = {}]_vars

\* C3 happens: download has ended on a failed compile POST.
CompileFailureReached ==
    /\ op = "download"
    /\ pc = "done"
    /\ Len(trace) = 2
    /\ resp = [status |-> FALSE]
    /\ ret.kind = "return"

\* C4: when the GET of the login page ends at another URL, login returns
\* true at once: the credential callback is not invoked and nothing is POSTed.
LoginRedirected ==
    [][(pc = "idle" /\ op' = "login" /\ resp'.url # login_url) =>
          /\ pc' = "done"
          /\ ret' = Return(TRUE)
          /\ \A k \in DOMAIN trace' : trace'[k].kind \notin {"get_credentials", "POST"}]_vars

\* C4 happens: login has returned on a redirect that still names /auth.
LoginRedirectedReached ==
    /\ op = "login"
    /\ pc = "done"
    /\ resp.url = <<"h","t","t","p","s",":","/","/","w","w","w",".","h","a","c","k","e","r","r","a","n","k",".","c","o","m","/","a","u","t","h","/","l","o","g","i","n","?","h","_","r","=","l","o","g","i","n">>
    /\ ret.kind = "return"
    /\ ret.value
    /\ Len(trace) = 1

\* C5: when the login POST returns without an HTTP error status, login
\* returns false if the URL after the POST contains '/auth' and true otherwise.
LoginResult ==
    [][(pc = "login_post" /\ resp'.ok) =>
          /\ pc' = "done"
          /\ ret'.kind = "return"
          /\ ret'.value = ~Contains(resp'.url, <<"/","a","u","t","h">>)]_vars

\* C5 happens: the login POST ended, without an error status, at a URL
\* below /auth, and login returned false.
LoginRejectedReached ==
    /\ op = "login"
    /\ pc = "done"
    /\ Len(trace) = 3
    /\ resp.ok
    /\ resp.url = <<"h","t","t","p","s",":","/","/","w","w","w",".","h","a","c","k","e","r","r","a","n","k",".","c","o","m","/","r","e","s","t","/","a","u","t","h","/","l","o","g","i","n">>
    /\ ret.kind = "return"
    /\ ~ret.value

\* C6: in submit an authentication step precedes the page GET and the
\* submission POST.
SubmitAuthenticates ==
    (op = "submit" /\ pc = "done") =>
        \E a \in DOMAIN trace :
            /\ IsAuthStep(trace[a])
            /\ \A k \in DOMAIN trace :
                  (trace[k].kind \in {"GET", "POST"} /\ ~IsAuthStep(trace[k])) => a < k

\* C6 amended: submit takes no authentication step of its own; its requests
\* are the GET of the problem page and then, when the page carries a CSRF
\* token, the submission POST.
SubmitRequestsOnly ==
    (op = "submit" /\ pc = "done") =>
        /\ \A k \in DOMAIN trace : ~IsAuthStep(trace[k])
        /\ Len(trace) \in {1, 2}
        /\ trace[1].kind = "GET" /\ trace[1].url = get_url(self)
        /\ Len(trace) = 2 =>
              trace[2].kind = "POST" /\ trace[2].url = submissions_url(self)

\* C6 happens: submit has POSTed the code and returned a handle.
SubmitReached ==
    /\ op = "submit"
    /\ pc = "done"
    /\ Len(trace) = 2
    /\ ret.kind = "return"

\* C7: is_logged_in returns true exactly when login treats the same
\* response as already signed in, and it neither asks for credentials nor POSTs.
IsLoggedInAgreesWithLogin ==
    (op = "is_logged_in" /\ pc = "done") =>
        /\ ret.value = already_signed_in(resp.url)
        /\ \A k \in DOMAIN trace : trace[k].kind \notin {"get_credentials", "POST"}

\* C8: with both statuses true and arrays of the same length N, the result
\* has N entries, entry i labelled 'Testcase i Input' and 'Testcase i
\* Expected Output' and carrying stdin[i] and expected_output[i] as text files.
SamplesZipped ==
    (/\ op = "download" /\ pc = "done" /\ Len(trace) = 4 /\ resp.status
     /\ Len(resp.stdin) = Len(resp.expected_output)) =>
        /\ ret.kind = "return"
        /\ DOMAIN ret.value = 1..Len(resp.stdin)
        /\ \A k \in 0..(Len(resp.stdin) - 1) :
              /\ ret.value[k + 1].input.name = <<"T","e","s","t","c","a","s","e"," ">> \o <<Digits[k + 1]>> \o <<" ","I","n","p","u","t">>
              /\ ret.value[k + 1].input.data = textfile(resp.stdin[k + 1])
              /\ ret.value[k + 1].output.name =
                    <<"T","e","s","t","c","a","s","e"," ">> \o <<Digits[k + 1]>> \o <<" ","E","x","p","e","c","t","e","d"," ","O","u","t","p","u","t">>
              /\ ret.value[k + 1].output.data = textfile(resp.expected_output[k + 1])

\* C8 happens: a poll answered two samples with different texts.
SamplesZippedReached ==
    /\ op = "download"
    /\ pc = "done"
    /\ Len(trace) = 4
    /\ resp.status
    /\ resp.stdin = <<"in-a", "in-b">>
    /\ resp.expected_output = <<"out-b", "out-a">>
    /\ Len(ret.value) = 2

\* C9: a submission POST or a metadata GET answered with status false
\* raises SubmissionError and returns nothing, whereas a compile POST
\* answered with status false returns an empty list and raises nothing.
FailuresRaised ==
    /\ (op = "submit" /\ pc = "done" /\ Len(trace) = 2 /\ ~resp.status) =>
          (ret.kind = "raise" /\ ret.value = "SubmissionError")
    /\ (op = "get_language_dict" /\ pc = "done" /\ ~resp.status) =>
          (ret.kind = "raise" /\ ret.value = "SubmissionError")
    /\ (op = "download" /\ pc = "done" /\ Len(trace) = 2 /\ ~resp.status) =>
          (ret.kind = "return" /\ ret.value = <<>>)

\* C9 happens: the metadata GET was answered with status false.
FailureRaisedReached ==
    /\ op = "get_language_dict"
    /\ pc = "done"
    /\ ~resp.status
    /\ ret.kind = "raise"

\* C10: after a compile POST with status true download polls exactly once,
\* right after the delay, and a poll answered with status false ends the
\* call with an empty list.
OnePoll ==
    op = "download" =>
        /\ Cardinality(PollRequests(trace)) <= 1
        /\ \A k \in PollRequests(trace) :
              /\ k = 4
              /\ trace[2].kind = "POST"
              /\ trace[3] = SleepEvent(3)
        /\ (pc = "done" /\ Len(trace) > 2) =>
              /\ Cardinality(PollRequests(trace)) = 1
              /\ ~resp.status => (ret.kind = "return" /\ ret.value = <<>>)
        /\ (Len(trace) > 2 /\ pc # "done") => (pc \in {"poll"} /\ Len(trace) = 3)

\* C10 happens: the single poll was answered with status false.
PollFailureReached ==
    /\ op = "download"
    /\ pc = "done"
    /\ Len(trace) = 4
    /\ ~resp.status
    /\ ret.kind = "return"

====
